---- MODULE Spec2Model ----
(***************************************************************************)
(* Model of generate_icon.py: create_notification_bell_icon(size,          *)
(* output_path) allocates a transparent RGBA canvas, paints six shapes     *)
(* whose geometry is derived from size by integer division, creates the    *)
(* parent directory of output_path, saves the canvas as a PNG and prints   *)
(* two confirmation lines.                                                 *)
(*                                                                         *)
(* The drawing primitives of the imaging library are modelled by the       *)
(* geometric region each one fills (coordinates are inclusive pixel        *)
(* positions); the filesystem calls by their documented outcomes.          *)
(***************************************************************************)
EXTENDS Integers, Sequences, FiniteSets, TLC

VARIABLES size, output_path, pc, locals, img, painted, dirs, files, stdout,
          failed, wrote, run, prev

vars == <<size, output_path, pc, locals, img, painted, dirs, files, stdout,
          failed, wrote, run, prev>>

\* Largest canvas side of the runs that paint pixels.
MaxSize == 20
\* Largest canvas side of the runs that compute the geometry only
\* (the doubled size reaches 2 * MaxGeomSize).
MaxGeomSize == 1100

Abs(n) == IF n < 0 THEN -n ELSE n

(***************************************************************************)
(* Geometry: the local variables of create_notification_bell_icon, each a  *)
(* function of size (Python's // on non-negative operands is \div).        *)
(***************************************************************************)
corner_radius(sz) == sz \div 5
center_x(sz) == sz \div 2
center_y(sz) == sz \div 2
bell_width(sz) == sz \div 3
bell_height(sz) == sz \div 3
bell_top_y(sz) == center_y(sz) - bell_height(sz) \div 2
bell_bottom_y(sz) == center_y(sz) + bell_height(sz) \div 4
bell_left_x(sz) == center_x(sz) - bell_width(sz) \div 2
bell_right_x_from_left(sz) == bell_left_x(sz) + bell_width(sz)
bell_right_x(sz) == center_x(sz) + bell_width(sz) \div 2

bell_points(sz) ==
    << <<center_x(sz) - bell_width(sz) \div 3, bell_top_y(sz)>>,
       <<center_x(sz) + bell_width(sz) \div 3, bell_top_y(sz)>>,
       <<bell_right_x(sz), bell_bottom_y(sz)>>,
       <<bell_left_x(sz), bell_bottom_y(sz)>> >>

handle_width_fixed(sz) == bell_width(sz) \div 6 + 2
handle_width(sz) == bell_width(sz) \div 6
handle_height(sz) == bell_height(sz) \div 6
handle_y_gap(sz) == bell_top_y(sz) - handle_height(sz) - 3
handle_y(sz) == bell_top_y(sz) - handle_height(sz)
rim_height(sz) == bell_height(sz) \div 15
clapper_radius(sz) == bell_width(sz) \div 8
clapper_y_one_rim(sz) == bell_bottom_y(sz) + clapper_radius(sz) + rim_height(sz)
clapper_y(sz) == bell_bottom_y(sz) + clapper_radius(sz) + rim_height(sz) * 2
dot_radius(sz) == sz \div 12
dot_x(sz) == center_x(sz) + bell_width(sz) \div 2 + dot_radius(sz) \div 2
dot_y(sz) == center_y(sz) - bell_height(sz) \div 2 - dot_radius(sz) \div 2

\* The bounding boxes handed to draw.rectangle / draw.ellipse: <<x0, y0, x1, y1>>.
handle_box(sz) ==
    <<center_x(sz) - handle_width(sz) \div 2, handle_y(sz),
      center_x(sz) + handle_width(sz) \div 2, bell_top_y(sz)>>
rim_box(sz) ==
    <<bell_left_x(sz), bell_bottom_y(sz),
      bell_right_x(sz), bell_bottom_y(sz) + rim_height(sz)>>
clapper_box(sz) ==
    <<center_x(sz) - clapper_radius(sz), clapper_y(sz) - clapper_radius(sz),
      center_x(sz) + clapper_radius(sz), clapper_y(sz) + clapper_radius(sz)>>
dot_box(sz) ==
    <<dot_x(sz) - dot_radius(sz), dot_y(sz) - dot_radius(sz),
      dot_x(sz) + dot_radius(sz), dot_y(sz) + dot_radius(sz)>>

\* All locals of one call, as the function body computes them from size.
Locals(sz) ==
    [ size |-> sz,
      corner_radius |-> corner_radius(sz),
      center_x |-> center_x(sz), center_y |-> center_y(sz),
      bell_width |-> bell_width(sz), bell_height |-> bell_height(sz),
      bell_top_y |-> bell_top_y(sz), bell_bottom_y |-> bell_bottom_y(sz),
      bell_left_x |-> bell_left_x(sz), bell_right_x |-> bell_right_x(sz),
      bell_points |-> bell_points(sz),
      handle_width |-> handle_width(sz), handle_height |-> handle_height(sz),
      handle_y |-> handle_y(sz), handle_box |-> handle_box(sz),
      rim_height |-> rim_height(sz), rim_box |-> rim_box(sz),
      clapper_radius |-> clapper_radius(sz), clapper_y |-> clapper_y(sz),
      clapper_box |-> clapper_box(sz),
      dot_radius |-> dot_radius(sz), dot_x |-> dot_x(sz), dot_y |-> dot_y(sz),
      dot_box |-> dot_box(sz) ]

NoLocals == [size |-> 0]

(***************************************************************************)
(* Colours (RGBA) and the canvas.                                          *)
(***************************************************************************)
Transparent == <<0, 0, 0, 0>>
bg_color == <<59, 130, 246, 255>>
White == <<255, 255, 255, 255>>
dot_color == <<239, 68, 68, 255>>

Pixels(sz) == (0 .. sz - 1) \X (0 .. sz - 1)

\* Image.new('RGBA', (size, size), (0, 0, 0, 0))
NewCanvas(sz) == [p \in Pixels(sz) |-> Transparent]

NoImage == <<>>

(***************************************************************************)
(* The regions the drawing primitives fill.                                *)
(***************************************************************************)
InRect(x, y, box) ==
    /\ box[1] <= x /\ x <= box[3]
    /\ box[2] <= y /\ y <= box[4]

\* The ellipse inscribed in the box; a box of one pixel is that pixel.
InEllipse(x, y, box) ==
    LET a == box[3] - box[1]
        b == box[4] - box[2]
        u == 2 * x - (box[1] + box[3])
        v == 2 * y - (box[2] + box[4])
    IN  /\ InRect(x, y, box)
        /\ u * u * b * b + v * v * a * a <= a * a * b * b

\* The box with each corner replaced by a quarter circle of radius r:
\* the points within r of the box shrunk by r on every side.
InRoundedRect(x, y, box, r) ==
    LET nx == IF x < box[1] + r THEN box[1] + r
              ELSE IF x > box[3] - r THEN box[3] - r ELSE x
        ny == IF y < box[2] + r THEN box[2] + r
              ELSE IF y > box[4] - r THEN box[4] - r ELSE y
    IN  /\ InRect(x, y, box)
        /\ (x - nx) * (x - nx) + (y - ny) * (y - ny) <= r * r

\* A convex polygon given clockwise (y grows downward), edges included.
InPolygon(x, y, pts) ==
    LET n == Len(pts)
    IN  /\ \E i \in 1 .. n : pts[i][1] <= x
        /\ \E i \in 1 .. n : pts[i][1] >= x
        /\ \E i \in 1 .. n : pts[i][2] <= y
        /\ \E i \in 1 .. n : pts[i][2] >= y
        /\ \A i \in 1 .. n :
              LET p == pts[i]
                  q == pts[(i % n) + 1]
              IN  (q[1] - p[1]) * (y - p[2]) - (q[2] - p[2]) * (x - p[1]) >= 0

\* fill=colour replaces the pixel (no blending) wherever the shape covers it.
Fill(image, region, colour) ==
    [p \in DOMAIN image |-> IF p \in region THEN colour ELSE image[p]]

BackgroundBox(L) == <<0, 0, L.size, L.size>>

DrawBackgroundSquare(image, L) ==
    Fill(image,
         {p \in DOMAIN image : InRect(p[1], p[2], BackgroundBox(L))},
         bg_color)
DrawBackground(image, L) ==
    Fill(image,
         {p \in DOMAIN image :
            InRoundedRect(p[1], p[2], BackgroundBox(L), L.corner_radius)},
         bg_color)
DrawBody(image, L) ==
    Fill(image,
         {p \in DOMAIN image : InPolygon(p[1], p[2], L.bell_points)},
         White)
DrawHandle(image, L) ==
    Fill(image, {p \in DOMAIN image : InRect(p[1], p[2], L.handle_box)}, White)
DrawRim(image, L) ==
    Fill(image, {p \in DOMAIN image : InRect(p[1], p[2], L.rim_box)}, White)
DrawClapper(image, L) ==
    Fill(image,
         {p \in DOMAIN image : InEllipse(p[1], p[2], L.clapper_box)},
         White)
DrawDotBehind(image, L) ==
    Fill(image,
         {p \in DOMAIN image :
            InEllipse(p[1], p[2], L.dot_box) /\ image[p] # White},
         dot_color)
DrawDotCentred(image, L) ==
    Fill(image,
         {p \in DOMAIN image :
            InEllipse(p[1], p[2],
                      <<L.center_x - L.dot_radius, L.center_y - L.dot_radius,
                        L.center_x + L.dot_radius, L.center_y + L.dot_radius>>)},
         dot_color)
DrawDot(image, L) ==
    Fill(image, {p \in DOMAIN image : InEllipse(p[1], p[2], L.dot_box)}, dot_color)

DrawOrder == <<"background", "body", "handle", "rim", "clapper", "dot">>

(***************************************************************************)
(* Paths and the filesystem.  A path is the sequence of its components,    *)
(* relative to the working directory; <<>> is the empty string, which      *)
(* names nothing.                                                          *)
(***************************************************************************)
Paths ==
    { <<"icon.png">>,
      <<"resources", "icon.png">>,
      <<"out", "img", "icon.png">> }

\* os.path.dirname
dirname(p) == SubSeq(p, 1, Len(p) - 1)

\* os.path.exists / os.path.isdir
Exists(p, ds, fl) == p # <<>> /\ (p \in ds \/ p \in DOMAIN fl)
IsDir(p, ds) == p # <<>> /\ p \in ds

\* The directory holding entry p is a directory (the working directory for a
\* single component).
ParentIsDir(p, ds) == p # <<>> /\ (Len(p) = 1 \/ dirname(p) \in ds)

\* os.mkdir(p) followed by makedirs' handler: an OSError is swallowed only
\* when exist_ok and p is a directory.
MkDirExistOk(p, ds, fl) ==
    IF p # <<>> /\ ~Exists(p, ds, fl) /\ ParentIsDir(p, ds)
    THEN [ok |-> TRUE, dirs |-> ds \cup {p}]
    ELSE [ok |-> IsDir(p, ds), dirs |-> ds]

\* os.makedirs(name, exist_ok=True): the missing ancestors first (a
\* FileExistsError among them is ignored), then name itself.
RECURSIVE MakeDirsFrom(_, _, _, _)
MakeDirsFrom(name, k, ds, fl) ==
    IF k >= Len(name)
    THEN MkDirExistOk(name, ds, fl)
    ELSE LET head == SubSeq(name, 1, k)
             r == IF Exists(head, ds, fl) THEN [ok |-> TRUE, dirs |-> ds]
                  ELSE MkDirExistOk(head, ds, fl)
         IN  MakeDirsFrom(name, k + 1, r.dirs, fl)

MakeDirsSwallow(name, ds, fl) ==
    [ok |-> TRUE, dirs |-> MakeDirsFrom(name, 1, ds, fl).dirs]
MakeDirs(name, ds, fl) == MakeDirsFrom(name, 1, ds, fl)

\* The PNG encoding of a canvas: it records the dimensions, the mode and
\* every pixel, and nothing else.
Encode(image, sz) ==
    [format |-> "PNG", width |-> sz, height |-> sz, mode |-> "RGBA",
     data |-> image]

\* open(path, "w+b") succeeds on a path that is not a directory and whose
\* parent is one.
CanOpenForWrite(p, ds) == p \notin ds /\ ParentIsDir(p, ds)

\* Set or add the entry p of a file table.
WithFile(fl, p, content) ==
    [q \in DOMAIN fl \cup {p} |-> IF q = p THEN content ELSE fl[q]]

SaveFileKeepExisting(fl, p, image, sz) ==
    IF p \in DOMAIN fl THEN fl ELSE WithFile(fl, p, Encode(image, sz))
\* img.save(output_path, 'PNG'): the file is created or truncated, then written.
SaveFile(fl, p, image, sz) == WithFile(fl, p, Encode(image, sz))

\* An icon file left by an earlier build.
Stale ==
    [format |-> "PNG", width |-> 1, height |-> 1, mode |-> "RGBA",
     data |-> (<<0, 0>> :> <<0, 0, 0, 255>>)]
Truncated == [format |-> "PNG", truncated |-> TRUE]
NoFiles == [q \in {} |-> Stale]

InitialFilesystems ==
    { [dirs |-> {}, files |-> NoFiles],
      [dirs |-> {<<"resources">>}, files |-> NoFiles],
      [dirs |-> {<<"resources">>},
       files |-> (<<"resources", "icon.png">> :> Stale)],
      [dirs |-> {<<"out">>}, files |-> NoFiles],
      [dirs |-> {<<"out">>, <<"out", "img">>},
       files |-> (<<"out", "img", "icon.png">> :> Stale)],
      [dirs |-> {}, files |-> (<<"resources">> :> Stale)],
      [dirs |-> {<<"resources">>, <<"resources", "icon.png">>},
       files |-> NoFiles],
      [dirs |-> {}, files |-> (<<"icon.png">> :> Stale)] }

NoRun ==
    [size |-> 0, output_path |-> <<>>, locals |-> NoLocals, img |-> NoImage,
     content |-> NoImage]

(***************************************************************************)
(* One call of create_notification_bell_icon, statement by statement.      *)
(***************************************************************************)
Init ==
    /\ size \in 1 .. MaxSize
    /\ output_path \in Paths
    /\ \E fs \in InitialFilesystems : dirs = fs.dirs /\ files = fs.files
    /\ pc = "start"
    /\ locals = NoLocals
    /\ img = NoImage
    /\ painted = <<>>
    /\ stdout = <<>>
    /\ failed = "none"
    /\ wrote = FALSE
    /\ run = 1
    /\ prev = NoRun

Begin ==
    /\ pc = "start"
    /\ img' = NewCanvas(size)
    /\ locals' = Locals(size)
    /\ pc' = "background"
    /\ UNCHANGED <<size, output_path, painted, dirs, files, stdout, failed,
                   wrote, run, prev>>

PaintBackground ==
    /\ pc = "background"
    /\ img' = DrawBackground(img, locals)
    /\ painted' = Append(painted, "background")
    /\ pc' = "body"
    /\ UNCHANGED <<size, output_path, locals, dirs, files, stdout, failed,
                   wrote, run, prev>>

PaintBody ==
    /\ pc = "body"
    /\ img' = DrawBody(img, locals)
    /\ painted' = Append(painted, "body")
    /\ pc' = "handle"
    /\ UNCHANGED <<size, output_path, locals, dirs, files, stdout, failed,
                   wrote, run, prev>>

PaintHandle ==
    /\ pc = "handle"
    /\ img' = DrawHandle(img, locals)
    /\ painted' = Append(painted, "handle")
    /\ pc' = "rim"
    /\ UNCHANGED <<size, output_path, locals, dirs, files, stdout, failed,
                   wrote, run, prev>>

PaintRim ==
    /\ pc = "rim"
    /\ img' = DrawRim(img, locals)
    /\ painted' = Append(painted, "rim")
    /\ pc' = "clapper"
    /\ UNCHANGED <<size, output_path, locals, dirs, files, stdout, failed,
                   wrote, run, prev>>

PaintClapper ==
    /\ pc = "clapper"
    /\ img' = DrawClapper(img, locals)
    /\ painted' = Append(painted, "clapper")
    /\ pc' = "dot"
    /\ UNCHANGED <<size, output_path, locals, dirs, files, stdout, failed,
                   wrote, run, prev>>

PaintDot ==
    /\ pc = "dot"
    /\ img' = DrawDot(img, locals)
    /\ painted' = Append(painted, "dot")
    /\ pc' = "makedirs"
    /\ UNCHANGED <<size, output_path, locals, dirs, files, stdout, failed,
                   wrote, run, prev>>

\* os.makedirs(os.path.dirname(output_path), exist_ok=True); an exception
\* ends the call.
EnsureDirectory ==
    /\ pc = "makedirs"
    /\ LET r == MakeDirs(dirname(output_path), dirs, files)
       IN  /\ dirs' = r.dirs
           /\ pc' = IF r.ok THEN "save" ELSE "error"
           /\ failed' = IF r.ok THEN failed ELSE "makedirs"
    /\ UNCHANGED <<size, output_path, locals, img, painted, files, stdout,
                   wrote, run, prev>>

\* img.save(output_path, 'PNG') runs to completion, or cannot open the file.
Save ==
    /\ pc = "save"
    /\ IF CanOpenForWrite(output_path, dirs)
       THEN /\ files' = SaveFile(files, output_path, img, size)
            /\ wrote' = TRUE
            /\ pc' = "print_path"
            /\ failed' = failed
       ELSE /\ pc' = "error"
            /\ failed' = "save"
            /\ UNCHANGED <<files, wrote>>
    /\ UNCHANGED <<size, output_path, locals, img, painted, dirs, stdout,
                   run, prev>>

\* img.save fails while writing (the device is full): the file was opened
\* and truncated, and holds part of the encoding.
SaveInterrupted ==
    /\ pc = "save"
    /\ CanOpenForWrite(output_path, dirs)
    /\ files' = WithFile(files, output_path, Truncated)
    /\ pc' = "error"
    /\ failed' = "save"
    /\ UNCHANGED <<size, output_path, locals, img, painted, dirs, stdout,
                   wrote, run, prev>>

PrintPath ==
    /\ pc = "print_path"
    /\ stdout' = Append(stdout, <<"Icon generated: ", output_path>>)
    /\ pc' = "print_size"
    /\ UNCHANGED <<size, output_path, locals, img, painted, dirs, files,
                   failed, wrote, run, prev>>

PrintSize ==
    /\ pc = "print_size"
    /\ stdout' = Append(stdout, <<"Size: ", size, "x", size, " pixels">>)
    /\ pc' = "done"
    /\ UNCHANGED <<size, output_path, locals, img, painted, dirs, files,
                   failed, wrote, run, prev>>

\* The script is run a second time, on the filesystem the first run left,
\* with any size and path.
RunAgain ==
    /\ pc = "done"
    /\ run = 1
    /\ prev' = [size |-> size, output_path |-> output_path, locals |-> locals,
                img |-> img, content |-> files[output_path]]
    /\ run' = 2
    /\ size' \in 1 .. MaxSize
    /\ output_path' \in Paths
    /\ pc' = "start"
    /\ locals' = NoLocals
    /\ img' = NoImage
    /\ painted' = <<>>
    /\ stdout' = <<>>
    /\ failed' = "none"
    /\ wrote' = FALSE
    /\ UNCHANGED <<dirs, files>>

Next ==
    \/ Begin
    \/ PaintBackground
    \/ PaintBody
    \/ PaintHandle
    \/ PaintRim
    \/ PaintClapper
    \/ PaintDot
    \/ EnsureDirectory
    \/ Save
    \/ SaveInterrupted
    \/ PrintPath
    \/ PrintSize
    \/ RunAgain

Spec == Init /\ [][Next]_vars

(***************************************************************************)
(* The geometry alone, at a size and then at twice that size: the inputs   *)
(* are drawn from 1 .. MaxGeomSize and no pixel is painted.                *)
(***************************************************************************)
InitGeom ==
    /\ size \in 1 .. MaxGeomSize
    /\ output_path = <<"resources", "icon.png">>
    /\ dirs = {}
    /\ files = NoFiles
    /\ pc = "geometry"
    /\ locals = NoLocals
    /\ img = NoImage
    /\ painted = <<>>
    /\ stdout = <<>>
    /\ failed = "none"
    /\ wrote = FALSE
    /\ run = 1
    /\ prev = NoRun

ComputeGeometry ==
    /\ pc = "geometry"
    /\ locals' = Locals(size)
    /\ pc' = "computed"
    /\ UNCHANGED <<size, output_path, img, painted, dirs, files, stdout,
                   failed, wrote, run, prev>>

Rescale ==
    /\ pc = "computed"
    /\ run = 1
    /\ prev' = [NoRun EXCEPT !.size = size, !.locals = locals]
    /\ size' = 2 * size
    /\ run' = 2
    /\ locals' = NoLocals
    /\ pc' = "geometry"
    /\ UNCHANGED <<output_path, img, painted, dirs, files, stdout, failed,
                   wrote>>

NextGeom ==
    \/ ComputeGeometry
    \/ Rescale

SpecGeom == InitGeom /\ [][NextGeom]_vars

(***************************************************************************)
(* Properties.                                                             *)
(***************************************************************************)
Final == Len(painted) = Len(DrawOrder)
Doubled == pc = "computed" /\ run = 2
Centre == <<size \div 2, size \div 2>>
Corners == {<<0, 0>>, <<size - 1, 0>>, <<0, size - 1>>, <<size - 1, size - 1>>}
AfterDirectoryStep == pc \in {"save", "print_path", "print_size", "done", "error"}

\* No regular file stands where a directory of the path is needed, and the
\* path itself is not a directory: the parent is missing, present, or the
\* working directory.
Unobstructed ==
    /\ output_path \notin dirs
    /\ \A k \in 1 .. Len(output_path) - 1 :
          SubSeq(output_path, 1, k) \notin DOMAIN files

\* C1 (as claimed): for a path whose parent directory is missing, present or
\* the working directory, the directory step never fails and leaves the
\* parent in place, and the save can then open the file.
C1_ParentEnsured ==
    (AfterDirectoryStep /\ Unobstructed) =>
        /\ failed # "makedirs"
        /\ ParentIsDir(output_path, dirs)

Dimensions ==
    {"corner_radius", "bell_width", "bell_height", "handle_width",
     "handle_height", "rim_height", "clapper_radius", "dot_radius"}

C3_DimensionsDouble ==
    Doubled => \A d \in Dimensions : Abs(locals[d] - 2 * prev.locals[d]) <= 1

C3_Witness ==
    /\ Doubled
    /\ prev.size = 1024
    /\ size = 2048
    /\ locals.bell_width = 2 * prev.locals.bell_width
    /\ locals.corner_radius = 2 * prev.locals.corner_radius + 1

C5_CornersUntouched ==
    Final =>
        \A c \in Corners :
            IF InRoundedRect(c[1], c[2], <<0, 0, size, size>>, size \div 5)
            THEN img[c] = bg_color
            ELSE img[c] = Transparent

\* C5 (amended): for every size each corner pixel of the final image is
\* transparent exactly when outside the rounded background and opaque
\* otherwise; for size >= 3 it is the background colour when covered.
C5_CornersTransparentIffOutside ==
    Final =>
        \A c \in Corners :
            IF InRoundedRect(c[1], c[2], <<0, 0, size, size>>, size \div 5)
            THEN /\ img[c][4] = 255
                 /\ size >= 3 => img[c] = bg_color
            ELSE img[c] = Transparent

C5_Witness ==
    /\ Final
    /\ size >= 5
    /\ img[<<0, 0>>] = Transparent
    /\ img[<<size - 1, size - 1>>] = bg_color

\* C6: the dot is painted last, its circle has radius size // 12 and centre
\* (bell_right_x + dot_radius // 2, bell_top_y - dot_radius // 2), and every
\* pixel of the final image inside that circle has the dot colour.
InDotCircle(p) ==
    LET r == size \div 12
        dx == p[1] - (locals.bell_right_x + r \div 2)
        dy == p[2] - (locals.bell_top_y - r \div 2)
    IN  dx * dx + dy * dy <= r * r

Coordinates ==
    {"center_x", "center_y", "bell_top_y", "bell_bottom_y", "bell_left_x",
     "bell_right_x", "handle_y", "clapper_y", "dot_x", "dot_y"}

C7_CoordinatesDoubleWithinOne ==
    Doubled => \A c \in Coordinates : Abs(locals[c] - 2 * prev.locals[c]) <= 1

\* C7 (amended): every coordinate at size 2*s is within a tolerance of twice
\* its value at size s, the tolerance being 1 for center_x, center_y,
\* bell_top_y and bell_left_x, 2 for bell_bottom_y, bell_right_x, handle_y
\* and dot_y, 3 for dot_x and 5 for clapper_y.
CoordinateTolerance ==
    [center_x |-> 1, center_y |-> 1, bell_top_y |-> 1, bell_left_x |-> 1,
     bell_bottom_y |-> 2, bell_right_x |-> 2, handle_y |-> 2, dot_y |-> 2,
     dot_x |-> 3, clapper_y |-> 5]

C7_CoordinatesDoubleWithinTolerance ==
    Doubled =>
        \A c \in Coordinates :
            Abs(locals[c] - 2 * prev.locals[c]) <= CoordinateTolerance[c]

C7_Witness ==
    /\ Doubled
    /\ prev.size = 1024
    /\ size = 2048
    /\ locals.handle_y = 2 * prev.locals.handle_y - 2
    /\ locals.clapper_y = 2 * prev.locals.clapper_y + 3

\* C8 (as claimed): for every size the clapper's top edge is strictly below
\* the rim's bottom edge.
C8_ClapperStrictlyBelowRim ==
    pc = "computed" => locals.clapper_box[2] > locals.rim_box[4]

\* C8 (amended): the clapper is centred on center_x at
\* y = bell_bottom_y + clapper_radius + 2 * rim_height and its top edge is
\* never above the rim's bottom edge; for size >= 45 it is strictly below.
C8_ClapperBelowRim ==
    pc = "computed" =>
        /\ locals.clapper_box[1] + locals.clapper_box[3] = 2 * locals.center_x
        /\ locals.clapper_box[2] + locals.clapper_box[4] = 2 * locals.clapper_y
        /\ locals.clapper_y =
              locals.bell_bottom_y + locals.clapper_radius + 2 * locals.rim_height
        /\ locals.clapper_box[2] >= locals.rim_box[4]
        /\ size >= 45 => locals.clapper_box[2] > locals.rim_box[4]

C8_Witness ==
    /\ pc = "computed"
    /\ size = 1024
    /\ locals.rim_height >= 1
    /\ locals.clapper_box[2] > locals.rim_box[4]

\* C9: the six shapes are painted in order before the directory step, the
\* file is written only after that step succeeded and holds the fully painted
\* canvas, a failure ends the call with nothing printed, and a printed
\* confirmation implies the file was written.
C9_OrderAndFailure ==
    /\ painted = SubSeq(DrawOrder, 1, Len(painted))
    /\ pc \in {"makedirs", "save", "print_path", "print_size", "done"} => Final
    /\ wrote =>
          /\ Final
          /\ failed = "none"
          /\ IsDir(dirname(output_path), dirs)
          /\ files[output_path] = Encode(img, size)
    /\ stdout # <<>> => wrote
    /\ pc = "done" => Len(stdout) = 2
    /\ failed # "none" => pc = "error" /\ stdout = <<>> /\ ~wrote
    /\ pc = "error" => failed # "none"

C9_Witness ==
    /\ pc = "done"
    /\ wrote
    /\ Len(stdout) = 2

\* C10: every coordinate handed to the foreground paint calls lies on the
\* canvas, and body, handle, rim and clapper are symmetric about center_x.
OnCanvas(n) == 0 <= n /\ n <= size - 1
BoxOnCanvas(box) == \A i \in 1 .. 4 : OnCanvas(box[i])
BoxSymmetric(box) == box[1] + box[3] = 2 * locals.center_x

C10_OnCanvasAndSymmetric ==
    pc = "computed" =>
        /\ \A i \in 1 .. 4 :
              OnCanvas(locals.bell_points[i][1]) /\ OnCanvas(locals.bell_points[i][2])
        /\ BoxOnCanvas(locals.handle_box)
        /\ BoxOnCanvas(locals.rim_box)
        /\ BoxOnCanvas(locals.clapper_box)
        /\ BoxOnCanvas(locals.dot_box)
        /\ locals.bell_points[1][1] + locals.bell_points[2][1] = 2 * locals.center_x
        /\ locals.bell_points[4][1] + locals.bell_points[3][1] = 2 * locals.center_x
        /\ locals.bell_points[1][2] = locals.bell_points[2][2]
        /\ locals.bell_points[3][2] = locals.bell_points[4][2]
        /\ BoxSymmetric(locals.handle_box)
        /\ BoxSymmetric(locals.rim_box)
        /\ BoxSymmetric(locals.clapper_box)

C10_Witness ==
    /\ pc = "computed"
    /\ size = 1024
    /\ locals.handle_width >= 1
    /\ locals.dot_radius >= 1
    /\ locals.dot_box[3] < size - 1

====
